---- MODULE Spec2Model ----
(***************************************************************************)
(* Recovery-journal decoder of the RTP-MIDI parser:                        *)
(* decodeJournalSection(buffer, i, minimumLen) of                          *)
(* src/src/rtpMidi_Parser_JournalSection.hpp.                              *)
(*                                                                         *)
(* One call of the function is a run of the steps below, one step per      *)
(* statement group of the function body; i (the cursor) and minimumLen     *)
(* (the budget) are the caller's variables, passed by reference, and keep  *)
(* their values when the call returns.                                     *)
(***************************************************************************)
EXTENDS Integers, Sequences, FiniteSets, TLC

\* ------------------------------------------------------------------ bounds
\* largest offset of the journal inside the buffer (cursor on entry)
MaxOff == 1
\* number of bytes that follow the 3-byte journal header in the buffer
BodyLen == 6
\* number of calls the caller makes on one buffer (first call + retries)
MaxCalls == 2

\* capacity of the buffer: offset + top header + body
Cap == MaxOff + 3 + BodyLen

\* values of the bytes the inputs are drawn from
\* top header byte: 0x00 (no channel journals), 0x20 (A, TOTCHAN=0),
\* 0x21 (A, TOTCHAN=1), 0x2F (A, TOTCHAN=15)
TopBytes == {0, 32, 33, 47}
\* bytes after the checkpoint: 0x00, and 0x10 (as third byte of a channel
\* header: the W chapter flag on the wire)
BodyBytes == {0, 16}

\* ------------------------------------------------------- header constants
\* Masks of the recovery journal header byte: S|Y|A|H|TOTCHAN(4).
RTP_MIDI_JS_FLAG_S == 128
RTP_MIDI_JS_FLAG_Y == 64
RTP_MIDI_JS_FLAG_A == 32
RTP_MIDI_JS_FLAG_H == 16
RTP_MIDI_JS_MASK_TOTALCHANNELS == 15

\* Masks of the 24-bit channel journal header, at their positions in the
\* 24-bit field S|CHAN(4)|H|LENGTH(10)|P|C|M|W|N|E|T|A (RFC 6295, fig. 9);
\* the decoder extracts LENGTH with ">> 8", i.e. above the 8 chapter flags.
RTP_MIDI_CJ_MASK_LENGTH == 261888
RTP_MIDI_CJ_FLAG_P == 128
RTP_MIDI_CJ_FLAG_C == 64
RTP_MIDI_CJ_FLAG_M == 32
RTP_MIDI_CJ_FLAG_W == 16
RTP_MIDI_CJ_FLAG_N == 8
RTP_MIDI_CJ_FLAG_E == 4
RTP_MIDI_CJ_FLAG_T == 2
RTP_MIDI_CJ_FLAG_A == 1

\* Chapter N header B|LEN(7)|LOW(4)|HIGH(4); chapter E and A length fields.
RTP_MIDI_CJ_CHAPTER_N_MASK_LENGTH == 32512
RTP_MIDI_CJ_CHAPTER_N_MASK_LOW == 240
RTP_MIDI_CJ_CHAPTER_N_MASK_HIGH == 15
RTP_MIDI_CJ_CHAPTER_E_MASK_LENGTH == 127
RTP_MIDI_CJ_CHAPTER_A_MASK_LENGTH == 127

\* Return codes.  "Ok" is the success status of the specification; the
\* function itself has no statement that returns it.
PARSER_OK == "Ok"
PARSER_NOT_ENOUGH_DATA == "NotEnoughData"
PARSER_UNEXPECTED_DATA == "StructuralViolation"

\* Values the caller can receive when control flows off the end of the
\* function (lines 235-238: no return statement in a function returning
\* int): the value is indeterminate, any int.
IndeterminateReturn ==
    {PARSER_OK, PARSER_NOT_ENOUGH_DATA, PARSER_UNEXPECTED_DATA, "Other"}

\* ------------------------------------------------------------- arithmetic
RECURSIVE BitAnd(_, _)
\* the C operator & on non-negative integers
BitAnd(a, b) ==
    IF a = 0 \/ b = 0 THEN 0
    ELSE (a % 2) * (b % 2) + 2 * BitAnd(a \div 2, b \div 2)

\* a value kept in four bits only
U4(x) == x % 16

\* assignment to a uint8_t
U8(x) == x % 256

\* ntohs(cb.value16) with cb.buffer[0] = b0, cb.buffer[1] = b1
ntohs(b0, b1) == b0 * 256 + b1

\* ntohl(cb.value32) with cb.buffer[0..3] = b0, b1, b2, b3: the four bytes
\* in network order, first byte most significant
ntohl(b0, b1, b2, b3) == b0 * 16777216 + b1 * 65536 + b2 * 256 + b3

\* ------------------------------------------------------------------ state
VARIABLES
    buf,            \* content of the ring buffer, positions 0..Cap-1
    len,            \* buffer.getLength(): number of bytes that have arrived
    i,              \* the caller's cursor (size_t &i)
    minimumLen,     \* the caller's budget (size_t &minimumLen)
    pc,             \* position of the call in the function body
    flags,          \* uint8_t flags
    totalChannels,  \* uint8_t totalChannels
    j,              \* channel loop counter
    chanflags,      \* uint32_t chanflags
    hdrs,           \* positions of the channel headers read by this call
    ret,            \* value the caller receives, "none" while the call runs
    exit,           \* the way the call ended
    reads,          \* bytes peeked by the last step: [pos, budget]
    req,            \* last requirement issued: cursor and budget before it, size
    entry,          \* cursor and budget on entry to the current call
    calls,          \* number of calls made so far
    first           \* entry of the first call, and the previous call: its
                    \* result, final cursor and budget, and how this one
                    \* follows it

vars == <<buf, len, i, minimumLen, pc, flags, totalChannels, j, chanflags,
          hdrs, ret, exit, reads, req, entry, calls, first>>

locals == <<flags, totalChannels, j, chanflags, hdrs>>
caller == <<buf, len, entry, calls, first>>

\* buffer.peek(p): the byte at position p of the ring
Peek(p) == buf[p % Cap]

\* one read: the position and the budget in force when it is made
Rd(p, m) == [pos |-> p, budget |-> m]

\* a budget raised by one byte too many
BumpOneMore(m, n) == m + n + 1

\* minimumLen += n
Bump(m, n) == m + n

\* buffer.getLength() < minimumLen
Starved(m) == len < m

\* a return that takes the failing increment back
ReturnNotEnoughDataRestoring(m, c, rd, rq) ==
    /\ minimumLen' = rq.m
    /\ i' = c
    /\ reads' = rd
    /\ req' = rq
    /\ ret' = "NotEnoughData"
    /\ exit' = "NotEnoughData"
    /\ pc' = "done"

\* "return PARSER_NOT_ENOUGH_DATA" after the requirement rq raised the
\* budget to m; the cursor stays at c
ReturnNotEnoughData(m, c, rd, rq) ==
    /\ minimumLen' = m
    /\ i' = c
    /\ reads' = rd
    /\ req' = rq
    /\ ret' = PARSER_NOT_ENOUGH_DATA
    /\ exit' = "NotEnoughData"
    /\ pc' = "done"

\* "return PARSER_UNEXPECTED_DATA"
ReturnUnexpectedData(m, c, rd, rq) ==
    /\ minimumLen' = m
    /\ i' = c
    /\ reads' = rd
    /\ req' = rq
    /\ ret' = PARSER_UNEXPECTED_DATA
    /\ exit' = "UnexpectedData"
    /\ pc' = "done"

\* control goes on to the statement at next
Goto(next, m, c, rd, rq) ==
    /\ minimumLen' = m
    /\ i' = c
    /\ reads' = rd
    /\ req' = rq
    /\ pc' = next
    /\ UNCHANGED <<ret, exit>>

\* a requirement of n bytes issued with cursor c and budget m
Req(c, m, n) == [i |-> c, m |-> m, n |-> n]

\* ------------------------------------------------------------------- Init
\* the buffer holding, from position off, a journal header with top byte t
\* and checkpoint 0x0001, followed by the bytes of body
Input(off, t, body) ==
    [p \in 0 .. Cap - 1 |->
        IF p < off THEN 0
        ELSE IF p = off THEN t
        ELSE IF p = off + 1 THEN 0
        ELSE IF p = off + 2 THEN 1
        ELSE body[p]]

Init ==
    /\ \E off \in 0 .. MaxOff, t \in TopBytes :
        \E body \in [off + 3 .. Cap - 1 -> BodyBytes] :
            /\ buf = Input(off, t, body)
            /\ i = off
            /\ minimumLen = off
            /\ entry = [i |-> off, m |-> off]
            /\ req = Req(off, off, 0)
    /\ len \in 0 .. Cap
    /\ first = [i |-> i, m |-> minimumLen, ret |-> "none", len |-> len,
                endI |-> i, endM |-> minimumLen, how |-> "none"]
    /\ pc = "start"
    /\ flags = 0 /\ totalChannels = 0 /\ j = 0 /\ chanflags = 0
    /\ hdrs = <<>>
    /\ ret = "none" /\ exit = "none"
    /\ reads = {}
    /\ calls = 1

\* ---------------------------------------------------------------- actions
\* lines 24-37: the flags byte and totalChannels
ReadFlags ==
    /\ pc = "start"
    /\ LET m1 == Bump(minimumLen, 1)
           rq == Req(i, minimumLen, 1)
       IN  IF Starved(m1)
           THEN /\ ReturnNotEnoughData(m1, i, {}, rq)
                /\ UNCHANGED locals
           ELSE /\ flags' = Peek(i)
                /\ totalChannels' =
                       U8(BitAnd(Peek(i), RTP_MIDI_JS_MASK_TOTALCHANNELS) + 1)
                /\ Goto("seq", m1, i + 1, {Rd(i, m1)}, rq)
                /\ UNCHANGED <<j, chanflags, hdrs>>
    /\ UNCHANGED caller

\* lines 39-57: the checkpoint packet sequence number
ReadCheckPoint ==
    /\ pc = "seq"
    /\ LET m1 == Bump(minimumLen, 2)
           rq == Req(i, minimumLen, 2)
       IN  IF Starved(m1)
           THEN ReturnNotEnoughData(m1, i, {}, rq)
           ELSE Goto("flagA", m1, i + 2, {Rd(i, m1), Rd(i + 1, m1)}, rq)
    /\ UNCHANGED locals
    /\ UNCHANGED caller

\* lines 59-84: the S and Y tests (empty bodies), the A test, the
\* requirement of the channel journal header, and the loop initialisation
TestFlagA ==
    /\ pc = "flagA"
    /\ IF BitAnd(flags, RTP_MIDI_JS_FLAG_A) # 0
       THEN LET m1 == Bump(minimumLen, 3)
                rq == Req(i, minimumLen, 3)
            IN  IF Starved(m1)
                THEN /\ ReturnNotEnoughData(m1, i, {}, rq)
                     /\ UNCHANGED j
                ELSE /\ Goto("loop", m1, i, {}, rq)
                     /\ j' = 0
       ELSE /\ Goto("flagH", minimumLen, i, {}, req)
            /\ UNCHANGED j
    /\ UNCHANGED <<flags, totalChannels, chanflags, hdrs>>
    /\ UNCHANGED caller

\* lines 84-92: the loop test and the channel journal header
ReadChannelHeader ==
    /\ pc = "loop"
    /\ IF j < totalChannels
       THEN /\ chanflags' = ntohl(Peek(i), Peek(i + 1), Peek(i + 2), 0)
            /\ hdrs' = Append(hdrs, i)
            /\ Goto("P", minimumLen, i + 3,
                    {Rd(i, minimumLen), Rd(i + 1, minimumLen),
                     Rd(i + 2, minimumLen)}, req)
       ELSE /\ Goto("flagH", minimumLen, i, {}, req)
            /\ UNCHANGED <<chanflags, hdrs>>
    /\ UNCHANGED <<flags, totalChannels, j>>
    /\ UNCHANGED caller

\* a fixed-size chapter that is required but not skipped
FixedChapterNotSkipped(flag, n, next) ==
    IF BitAnd(chanflags, flag) # 0
    THEN LET m1 == Bump(minimumLen, n)
             rq == Req(i, minimumLen, n)
         IN  IF Starved(m1)
             THEN ReturnNotEnoughData(m1, i, {}, rq)
             ELSE Goto(next, m1, i, {}, rq)
    ELSE Goto(next, minimumLen, i, {}, req)

\* a chapter of fixed size n (P: 3, W: 2, T: 1), present when flag is set
FixedChapter(flag, n, next) ==
    IF BitAnd(chanflags, flag) # 0
    THEN LET m1 == Bump(minimumLen, n)
             rq == Req(i, minimumLen, n)
         IN  IF Starved(m1)
             THEN ReturnNotEnoughData(m1, i, {}, rq)
             ELSE Goto(next, m1, i + n, {}, rq)
    ELSE Goto(next, minimumLen, i, {}, req)

\* lines 94-101: program change chapter
ChapterP ==
    /\ pc = "P"
    /\ FixedChapter(RTP_MIDI_CJ_FLAG_P, 3, "C")
    /\ UNCHANGED locals
    /\ UNCHANGED caller

\* lines 103-106: control chapter (empty body)
ChapterC ==
    /\ pc = "C"
    /\ Goto("M", minimumLen, i, {}, req)
    /\ UNCHANGED locals
    /\ UNCHANGED caller

\* lines 108-111: parameter chapter (empty body)
ChapterM ==
    /\ pc = "M"
    /\ Goto("W", minimumLen, i, {}, req)
    /\ UNCHANGED locals
    /\ UNCHANGED caller

\* lines 113-120: pitch-wheel chapter
ChapterW ==
    /\ pc = "W"
    /\ FixedChapter(RTP_MIDI_CJ_FLAG_W, 2, "N")
    /\ UNCHANGED locals
    /\ UNCHANGED caller

\* lines 133-146: the size of the offbit octets of a chapter N header, -1
\* for a (low, high) pair that must not appear
OffbitCount(low, high) ==
    IF low <= high THEN U8(high - low + 1)
    ELSE IF low = 15 /\ high = 0 THEN 0
    ELSE IF low = 15 /\ high = 1 THEN 0
    ELSE -1

\* a count that ignores the escape value for 128 note logs
LogListCountNoEscape(header, low, high) ==
    U8(BitAnd(header, RTP_MIDI_CJ_CHAPTER_N_MASK_LENGTH) \div 256)

\* lines 133, 148-153: the number of note logs of a chapter N header
LogListCount(header, low, high) ==
    LET logListCount ==
            U8(BitAnd(header, RTP_MIDI_CJ_CHAPTER_N_MASK_LENGTH) \div 256)
    IN  IF logListCount = 127 /\ low = 15 /\ high = 0
        THEN 128
        ELSE logListCount

\* lines 122-171: note on/off chapter
ChapterN ==
    /\ pc = "N"
    /\ IF BitAnd(chanflags, RTP_MIDI_CJ_FLAG_N) # 0
       THEN LET m1 == Bump(minimumLen, 2)
                rq1 == Req(i, minimumLen, 2)
                header == ntohs(Peek(i), Peek(i + 1))
                rd == {Rd(i, m1), Rd(i + 1, m1)}
                low == U8(BitAnd(header, RTP_MIDI_CJ_CHAPTER_N_MASK_LOW) \div 16)
                high == U8(BitAnd(header, RTP_MIDI_CJ_CHAPTER_N_MASK_HIGH))
                offbitCount == OffbitCount(low, high)
                n == (LogListCount(header, low, high) * 2) + offbitCount
                m2 == Bump(m1, n)
                rq2 == Req(i + 2, m1, n)
            IN  IF Starved(m1)
                THEN ReturnNotEnoughData(m1, i, {}, rq1)
                ELSE IF offbitCount = -1
                THEN ReturnUnexpectedData(m1, i + 2, rd, rq1)
                ELSE IF Starved(m2)
                THEN ReturnNotEnoughData(m2, i + 2, rd, rq2)
                ELSE Goto("E", m2, i + 2 + n, rd, rq2)
       ELSE Goto("E", minimumLen, i, {}, req)
    /\ UNCHANGED locals
    /\ UNCHANGED caller

\* the reads of a walk over count two-byte entries from position c, made
\* under the budget m
Walk(c, count, m) ==
    {Rd(p, m) : p \in c .. c + 2 * count - 1}

\* lines 173-195: note command extras chapter
ChapterE ==
    /\ pc = "E"
    /\ IF BitAnd(chanflags, RTP_MIDI_CJ_FLAG_E) # 0
       THEN LET m1 == Bump(minimumLen, 1)
                rq1 == Req(i, minimumLen, 1)
                header == Peek(i)
                log_count ==
                    U8(U8(BitAnd(header, RTP_MIDI_CJ_CHAPTER_E_MASK_LENGTH)) + 1)
                m2 == Bump(m1, log_count * 2)
                rq2 == Req(i + 1, m1, log_count * 2)
            IN  IF Starved(m1)
                THEN ReturnNotEnoughData(m1, i, {}, rq1)
                ELSE IF Starved(m2)
                THEN ReturnNotEnoughData(m2, i + 1, {Rd(i, m1)}, rq2)
                ELSE Goto("T", m2, i + 1 + 2 * log_count,
                          {Rd(i, m1)} \cup Walk(i + 1, log_count, m2), rq2)
       ELSE Goto("T", minimumLen, i, {}, req)
    /\ UNCHANGED locals
    /\ UNCHANGED caller

\* lines 197-205: channel aftertouch chapter
ChapterT ==
    /\ pc = "T"
    /\ FixedChapter(RTP_MIDI_CJ_FLAG_T, 1, "A")
    /\ UNCHANGED locals
    /\ UNCHANGED caller

\* a loop step that leaves the channel counter where it is
NextChannelStuck(k) == k

\* line 84: j++ of the channel loop
NextChannel(k) == k + 1

\* lines 207-226: poly aftertouch chapter, and the j++ of the channel loop
ChapterA ==
    /\ pc = "A"
    /\ IF BitAnd(chanflags, RTP_MIDI_CJ_FLAG_A) # 0
       THEN LET m1 == Bump(minimumLen, 2)
                rq1 == Req(i, minimumLen, 2)
                log_count ==
                    U8(U8(BitAnd(Peek(i), RTP_MIDI_CJ_CHAPTER_A_MASK_LENGTH)) + 1)
            IN  IF Starved(m1)
                THEN /\ ReturnNotEnoughData(m1, i, {}, rq1)
                     /\ UNCHANGED j
                ELSE /\ Goto("loop", m1, i + 1 + 2 * log_count,
                             {Rd(i, m1)} \cup Walk(i + 1, log_count, m1), rq1)
                     /\ j' = NextChannel(j)
       ELSE /\ Goto("loop", minimumLen, i, {}, req)
            /\ j' = NextChannel(j)
    /\ UNCHANGED <<flags, totalChannels, chanflags, hdrs>>
    /\ UNCHANGED caller

\* lines 229-238: the H test (empty body) and the end of the function body,
\* reached without a return statement
FallOffEnd ==
    /\ pc = "flagH"
    /\ ret' \in IndeterminateReturn
    /\ exit' = "FallThrough"
    /\ pc' = "done"
    /\ reads' = {}
    /\ UNCHANGED <<i, minimumLen, req>>
    /\ UNCHANGED locals
    /\ UNCHANGED caller

\* The caller, after PARSER_NOT_ENOUGH_DATA: more bytes arrive and it calls
\* the decoder again with the cursor and the budget the last call left.
Retry ==
    /\ pc = "done"
    /\ ret = PARSER_NOT_ENOUGH_DATA
    /\ calls < MaxCalls
    /\ len' \in len + 1 .. Cap
    /\ calls' = calls + 1
    /\ entry' = [i |-> i, m |-> minimumLen]
    /\ first' = [first EXCEPT !.ret = ret, !.endI = i, !.endM = minimumLen,
                              !.how = "retry"]
    /\ req' = Req(i, minimumLen, 0)
    /\ pc' = "start"
    /\ ret' = "none"
    /\ exit' = "none"
    /\ reads' = {}
    /\ flags' = 0 /\ totalChannels' = 0 /\ j' = 0 /\ chanflags' = 0
    /\ hdrs' = <<>>
    /\ UNCHANGED <<buf, i, minimumLen>>

\* The caller, after a call that returned Ok: it decodes the same bytes once
\* more, from the cursor and the budget the call was entered with.
Restart ==
    /\ pc = "done"
    /\ ret = PARSER_OK
    /\ calls < MaxCalls
    /\ calls' = calls + 1
    /\ i' = entry.i
    /\ minimumLen' = entry.m
    /\ first' = [first EXCEPT !.ret = ret, !.endI = i, !.endM = minimumLen,
                              !.how = "restart"]
    /\ req' = Req(entry.i, entry.m, 0)
    /\ pc' = "start"
    /\ ret' = "none"
    /\ exit' = "none"
    /\ reads' = {}
    /\ flags' = 0 /\ totalChannels' = 0 /\ j' = 0 /\ chanflags' = 0
    /\ hdrs' = <<>>
    /\ UNCHANGED <<buf, len, entry>>

\* the start of another call from the entry cursor and budget of this one
CallAgain(how) ==
    /\ calls' = calls + 1
    /\ i' = entry.i
    /\ minimumLen' = entry.m
    /\ first' = [first EXCEPT !.ret = ret, !.endI = i, !.endM = minimumLen,
                              !.how = how]
    /\ req' = Req(entry.i, entry.m, 0)
    /\ pc' = "start"
    /\ ret' = "none"
    /\ exit' = "none"
    /\ reads' = {}
    /\ flags' = 0 /\ totalChannels' = 0 /\ j' = 0 /\ chanflags' = 0
    /\ hdrs' = <<>>
    /\ UNCHANGED entry

\* byte b with the bit (a power of two) inverted
Toggle(b, bit) == IF (b \div bit) % 2 = 1 THEN b - bit ELSE b + bit

\* the channel headers of the journal at position e of b lie within the
\* buffer: no header byte is read from a wrapped position
HeadersWithin(b, e) == e + 3 + 3 * ((b[e] % 16) + 1) <= Cap

\* the buffers that differ from b in one field the decoder does not handle,
\* for the journal at position e: the S, Y or H bit of the top header, or,
\* in the first channel header, the C or M chapter flag or a bit of LENGTH.
\* The S bit is inverted where the top header is not read again as the first
\* byte of a channel header: chanflags stays below 2^31.
Variants(b, e) ==
    {[b EXCEPT ![e] = Toggle(b[e], bit)] : bit \in {64, 16}}
    \cup (IF HeadersWithin(b, e)
          THEN {[b EXCEPT ![e] = Toggle(b[e], 128)]}
          ELSE {})
    \cup {[b EXCEPT ![e + 5] = Toggle(b[e + 5], bit)] : bit \in {64, 32}}
    \cup {[b EXCEPT ![e + 4] = Toggle(b[e + 4], 1)]}

\* The caller decodes, from the same entry cursor and budget, an input that
\* differs in a field the decoder does not handle.
DecodeVariant ==
    /\ pc = "done"
    /\ calls < MaxCalls
    /\ buf' \in Variants(buf, entry.i)
    /\ CallAgain("variant")
    /\ UNCHANGED len

\* The caller decodes, from the same entry cursor and budget, an input that
\* was decoded as Ok, now followed by further bytes: the bytes that were
\* available stay as they are.
DecodeExtended ==
    /\ pc = "done"
    /\ ret = PARSER_OK
    /\ calls < MaxCalls
    /\ len < Cap
    /\ len' \in {len + 1, Cap}
    /\ buf' \in {[buf EXCEPT ![len] = x] : x \in BodyBytes}
    /\ CallAgain("extend")

\* the steps of the function body
DecoderStep ==
    \/ ReadFlags
    \/ ReadCheckPoint
    \/ TestFlagA
    \/ ReadChannelHeader
    \/ ChapterP
    \/ ChapterC
    \/ ChapterM
    \/ ChapterW
    \/ ChapterN
    \/ ChapterE
    \/ ChapterT
    \/ ChapterA
    \/ FallOffEnd

Next ==
    \/ ReadFlags
    \/ ReadCheckPoint
    \/ TestFlagA
    \/ ReadChannelHeader
    \/ ChapterP
    \/ ChapterC
    \/ ChapterM
    \/ ChapterW
    \/ ChapterN
    \/ ChapterE
    \/ ChapterT
    \/ ChapterA
    \/ FallOffEnd
    \/ Retry
    \/ Restart

Spec == Init /\ [][Next]_vars

\* One call, whose steps are taken one after the other until it returns:
\* the function is sequential code without suspension points.
TermSpec == Init /\ [][DecoderStep]_vars /\ WF_vars(DecoderStep)

\* a call, then a call on an input that differs in an unhandled field or
\* that is followed by further bytes
CompareStep ==
    \/ DecoderStep
    \/ DecodeVariant
    \/ DecodeExtended

CompareSpec == Init /\ [][CompareStep]_vars

\* ------------------------------------------------------------------------
\* The chapter decoders of one channel journal (lines 94-225) as a function
\* of chanflags, of the bytes at the cursor and of the available length:
\* entered after a channel header, with any value of the chapter flags.
\* ------------------------------------------------------------------------

\* values of the bytes of chapter headers: 0x00, 0x04, 0x7F, 0xFF, and as
\* second byte of a chapter N header (low, high) = (15,0), (15,1), (5,3),
\* (2,2)
ChapterBytes == {0, 4, 127, 255, 240, 241, 83, 34}

\* values of chanflags: no chapter, each chapter alone, and combinations
ChapterFlags == {0, 128, 64, 32, 16, 8, 4, 2, 1, 96, 12, 5, 153, 255}

\* values of buffer.getLength(): around the first requirements, and enough
\* for the longest chapters
ChapterLens == {6, 7, 8, 9, 10, 11, 14, 800}

\* the buffer whose bytes are h0, h1, h2, h0, h1, h2, ...
ChapterInput(h0, h1, h2) ==
    [p \in 0 .. Cap - 1 |->
        IF p % 3 = 0 THEN h0 ELSE IF p % 3 = 1 THEN h1 ELSE h2]

\* the state after the channel header at position 3 was read (line 92), in
\* the first iteration (budget = cursor) or a later one (budget behind)
ChapterInit ==
    /\ \E h0 \in ChapterBytes, h1 \in ChapterBytes, h2 \in ChapterBytes :
          buf = ChapterInput(h0, h1, h2)
    /\ len \in ChapterLens
    /\ chanflags \in ChapterFlags
    /\ i = 6
    /\ minimumLen \in {6, 3}
    /\ hdrs = <<3>>
    /\ j = 0
    /\ flags = 33 /\ totalChannels = 2
    /\ entry = [i |-> 0, m |-> 0]
    /\ req = Req(3, 3, 3)
    /\ first = [i |-> 0, m |-> 0, ret |-> "none", len |-> len,
                endI |-> 0, endM |-> 0, how |-> "none"]
    /\ pc = "P"
    /\ ret = "none" /\ exit = "none"
    /\ reads = {}
    /\ calls = 1

ChapterStep ==
    \/ ChapterP
    \/ ChapterC
    \/ ChapterM
    \/ ChapterW
    \/ ChapterN
    \/ ChapterE
    \/ ChapterT
    \/ ChapterA

ChapterSpec == ChapterInit /\ [][ChapterStep]_vars

\* ------------------------------------------------------------------------
\* The encoded size of a journal, from the wire format: the reference the
\* decoder's cursor and budget are compared with.
\* ------------------------------------------------------------------------

\* bit (a power of two) is set in byte b
WireBit(b, bit) == (b \div bit) % 2 = 1

\* Start and size of the chapters of the channel journal whose header
\* starts at p and whose chapter flags are f (P = 0x80 ... A = 0x01).
ChapterLayout(p, f) ==
    LET pP == p + 3
        sP == IF WireBit(f, 128) THEN 3 ELSE 0
        pW == pP + sP
        sW == IF WireBit(f, 16) THEN 2 ELSE 0
        pN == pW + sW
        nLen == Peek(pN) % 128
        nLow == Peek(pN + 1) \div 16
        nHigh == Peek(pN + 1) % 16
        nLegal == nLow <= nHigh \/ (nLow = 15 /\ nHigh \in {0, 1})
        nOff == IF nLow <= nHigh THEN nHigh - nLow + 1 ELSE 0
        nLogs == IF nLen = 127 /\ nLow = 15 /\ nHigh = 0 THEN 128 ELSE nLen
        sN == IF WireBit(f, 8) THEN 2 + 2 * nLogs + nOff ELSE 0
        pE == pN + sN
        sE == IF WireBit(f, 4) THEN 1 + 2 * ((Peek(pE) % 128) + 1) ELSE 0
        pT == pE + sE
        sT == IF WireBit(f, 2) THEN 1 ELSE 0
        pA == pT + sT
        sA == IF WireBit(f, 1) THEN 1 + 2 * ((Peek(pA) % 128) + 1) ELSE 0
    IN  [size |-> 3 + sP + sW + sN + sE + sT + sA,
         legal |-> WireBit(f, 8) => nLegal,
         pP |-> pP, pW |-> pW, pN |-> pN, pE |-> pE, pT |-> pT, pA |-> pA,
         sN |-> sN, sE |-> sE, sA |-> sA]

\* the chapters of the channel journal at p: the chapter flags are the
\* third byte of its 24-bit header
WireChapters(p) == ChapterLayout(p, Peek(p + 2))

RECURSIVE WireChannels(_, _)
\* size and legality of k consecutive channel journals from position p
WireChannels(p, k) ==
    IF k = 0 THEN [size |-> 0, legal |-> TRUE]
    ELSE LET c == WireChapters(p)
             rest == WireChannels(p + c.size, k - 1)
         IN  [size |-> c.size + rest.size, legal |-> c.legal /\ rest.legal]

\* the journal whose top header is at position e
WireJournal(e) ==
    IF WireBit(Peek(e), 32)
    THEN LET c == WireChannels(e + 3, (Peek(e) % 16) + 1)
         IN  [size |-> 3 + c.size, legal |-> c.legal]
    ELSE [size |-> 3, legal |-> TRUE]

\* a structurally valid journal lies in the buffer from position e
JournalAt(e) ==
    /\ WireJournal(e).legal
    /\ e + WireJournal(e).size <= Cap

JournalSize(e) == WireJournal(e).size

\* the call has returned
Returned == pc = "done"

\* ------------------------------------------------------------------ claims

\* C1 (as claimed): in a call entered with cursor equal to budget, every
\* byte read is at a position strictly below the budget in force, and that
\* budget is at most the available length.
C1_ReadSafety ==
    entry.i = entry.m =>
        \A r \in reads : r.pos < r.budget /\ r.budget <= len

\* C2 (as claimed): a call returns one of Ok, NotEnoughData and
\* StructuralViolation, and a call that passes every budget check and meets
\* no structural violation returns Ok.
C2_ThreeOutcomes ==
    Returned =>
        /\ ret \in {PARSER_OK, PARSER_NOT_ENOUGH_DATA, PARSER_UNEXPECTED_DATA}
        /\ exit = "FallThrough" => ret = PARSER_OK

\* C3 (as claimed): decoding a valid journal of L bytes with n bytes
\* available from its start returns NotEnoughData when n < L, and Ok only
\* when n >= L.
C3_SizeDecides ==
    (Returned /\ calls = 1 /\ JournalAt(entry.i)) =>
        LET n == len - entry.i
            L == JournalSize(entry.i)
        IN  /\ n < L => ret = PARSER_NOT_ENOUGH_DATA
            /\ ret = PARSER_OK => n >= L

\* the journal of the end-to-end scenario starts at e: A set, TOTCHAN=0,
\* checkpoint 0x0001, one channel header with only W set and LENGTH=0
Scenario(e) ==
    /\ Peek(e) = 32
    /\ Peek(e + 1) = 0 /\ Peek(e + 2) = 1
    /\ Peek(e + 3) = 0 /\ Peek(e + 4) = 0 /\ Peek(e + 5) = 16

\* C4 (as claimed): on the scenario journal the budget grows by 8; with
\* exactly 8 bytes the call returns Ok with the cursor advanced by 8, with 7
\* it returns NotEnoughData.
C4_Scenario ==
    (Returned /\ calls = 1 /\ Scenario(entry.i)) =>
        /\ len = entry.i + 8 =>
              /\ ret = PARSER_OK
              /\ i = entry.i + 8
              /\ minimumLen = entry.m + 8
        /\ len = entry.i + 7 => ret = PARSER_NOT_ENOUGH_DATA

\* C5 (as claimed): a failing budget check leaves cursor and budget as they
\* were before the failing requirement.
C5_StarvedRestores ==
    exit = "NotEnoughData" => minimumLen = req.m /\ i = req.i

\* C5 (amended): a failing budget check leaves the cursor where it was when
\* the requirement was issued, and the budget keeps the failing increment:
\* it is the budget before the requirement plus n, above the available
\* length.
C5_StarvedKeepsIncrement ==
    exit = "NotEnoughData" =>
        /\ i = req.i
        /\ minimumLen = req.m + req.n
        /\ len < minimumLen

\* C5 witness: a requirement fails after earlier ones succeeded.
C5_Witness ==
    /\ exit = "NotEnoughData"
    /\ req.m > entry.m
    /\ req.n = 3

\* C6 (as claimed): after NotEnoughData on a truncated valid journal, the
\* call repeated with the cursor and budget left behind, on the input
\* extended by the missing bytes, returns Ok with the cursor just after the
\* journal.
C6_RetryCompletes ==
    (/\ Returned /\ calls = 2
     /\ first.ret = PARSER_NOT_ENOUGH_DATA
     /\ JournalAt(first.i)
     /\ first.len < first.i + JournalSize(first.i)
     /\ len >= first.i + JournalSize(first.i)) =>
        /\ ret = PARSER_OK
        /\ i = first.i + JournalSize(first.i)

\* C7 (as claimed): StructuralViolation is returned exactly when the
\* decoder stops at a chapter N header with an illegal (low, high) pair.
C7_OnlyChapterN ==
    Returned => (ret = PARSER_UNEXPECTED_DATA <=> exit = "UnexpectedData")

\* C8 (as claimed): when the call returns StructuralViolation, cursor and
\* budget have their values on entry.
C8_ViolationFrame ==
    (Returned /\ ret = PARSER_UNEXPECTED_DATA) =>
        i = entry.i /\ minimumLen = entry.m

\* C9 (as claimed): on Ok the cursor advance equals the encoded size of
\* the journal.
C9_AdvanceIsSize ==
    (Returned /\ calls = 1 /\ ret = PARSER_OK /\ JournalAt(entry.i)) =>
        i - entry.i = JournalSize(entry.i)

\* C10: no step of a call decreases the budget, and when the call returns Ok
\* the growth of the budget since entry is at most the number of bytes
\* consumed.
C10_BudgetBounded ==
    /\ [][pc # "done" => minimumLen' >= minimumLen]_vars
    /\ [](Returned /\ ret = PARSER_OK =>
            minimumLen - entry.m <= i - entry.i)

\* C10 witness: an Ok return of a two-channel journal, the budget having
\* grown by less than the bytes consumed.
C10_Witness ==
    /\ Returned /\ ret = PARSER_OK /\ exit = "FallThrough"
    /\ totalChannels = 2
    /\ minimumLen - entry.m = 6
    /\ i - entry.i = 9

\* C11 (as claimed): bytes decoded as Ok and decoded once more from the same
\* entry cursor and budget give the same status and the same final cursor.
C11_SameOutcomeAgain ==
    (Returned /\ first.how = "restart" /\ first.ret = PARSER_OK) =>
        /\ ret = first.ret
        /\ i = first.endI

\* the A flag and the number of channel journals of the top header at e
WireHasChannels(e) == WireBit(Peek(e), 32)
WireTotalChannels(e) == (Peek(e) % 16) + 1

\* none of the channel journals of the journal at e has a chapter
NoChapters(e) ==
    \A c \in 0 .. WireTotalChannels(e) - 1 : Peek(e + 3 + 3 * c + 2) = 0

\* C12 (as claimed): every channel iteration issues its own 3-byte
\* requirement: on Ok the channel headers contribute 3 * totalChannels to
\* the budget, and a journal cut inside its k-th channel header, k >= 2,
\* returns NotEnoughData.
C12_PerChannelRequirement ==
    (/\ Returned /\ calls = 1
     /\ WireHasChannels(entry.i) /\ NoChapters(entry.i)) =>
        /\ ret = PARSER_OK =>
              minimumLen - entry.m = 3 + 3 * WireTotalChannels(entry.i)
        /\ \A k \in 2 .. WireTotalChannels(entry.i) :
              (/\ len - entry.i >= 3 + 3 * (k - 1)
               /\ len - entry.i < 3 + 3 * k) => ret = PARSER_NOT_ENOUGH_DATA

\* the call has read its flags byte
FlagsRead == pc \notin {"start", "done"} \/ exit = "FallThrough"

\* C17: totalChannels is (flags & 0x0F) + 1, between 1 and 16; a call that
\* runs to the end has run the channel loop body totalChannels times when the
\* A flag is set, and not at all, consuming 3 bytes, when it is clear.
C17_ChannelCount ==
    /\ FlagsRead =>
          /\ totalChannels = (flags % 16) + 1
          /\ totalChannels \in 1 .. 16
    /\ exit = "FallThrough" =>
          IF WireBit(flags, 32)
          THEN Len(hdrs) = (flags % 16) + 1
          ELSE Len(hdrs) = 0 /\ i - entry.i = 3

\* C17 witness: a call that ran the loop body sixteen times.
C17_Witness ==
    /\ exit = "FallThrough"
    /\ flags % 16 = 15
    /\ Len(hdrs) = 16

\* C18 (as claimed): chanflags is the 24-bit big-endian value of the three
\* header bytes.
C18_ChanflagsIs24Bit ==
    pc = "P" =>
        LET h == hdrs[Len(hdrs)]
        IN  chanflags = Peek(h) * 65536 + Peek(h + 1) * 256 + Peek(h + 2)

\* C19: a call runs at most 16 channel iterations and returns.
C19_Terminates ==
    /\ [](Len(hdrs) <= 16)
    /\ <>Returned

\* C19 witness: a call that returned after sixteen channel iterations.
C19_Witness ==
    /\ Returned
    /\ Len(hdrs) = 16
    /\ i - entry.i = 51

\* the chapter flag is set in chanflags
Has(flag) == BitAnd(chanflags, flag) # 0

\* the step of chapter E (at = "E") or A (at = "A") as claimed: once its
\* 1-byte header requirement has passed, logCount = (header & 0x7F) + 1 and
\* a further 2 * logCount bytes are required and checked; when they are
\* there, budget and cursor both advance by 1 + 2 * logCount
SizedByLogCount(at, flag, next) ==
    (pc = at /\ Has(flag) /\ len >= minimumLen + 1) =>
        LET logCount == (Peek(i) % 128) + 1
        IN  IF len >= minimumLen + 1 + 2 * logCount
            THEN /\ pc' = next
                 /\ i' = i + 1 + 2 * logCount
                 /\ minimumLen' = minimumLen + 1 + 2 * logCount
            ELSE exit' = "NotEnoughData"

Layout == ChapterLayout(hdrs[Len(hdrs)], chanflags % 256)

\* the step taken from a chapter whose flag is clear: no requirement, no
\* read, no advance
Untouched(at, flag) ==
    (pc = at /\ ~Has(flag)) =>
        /\ i' = i /\ minimumLen' = minimumLen
        /\ req' = req /\ reads' = {}

C16_UnhandledFieldsIgnored ==
    (Returned /\ first.how = "variant") =>
        /\ ret = first.ret
        /\ i = first.endI
        /\ minimumLen = first.endM

\* C20 (as claimed): a call that returns Ok ends with its cursor within the
\* available bytes, and the same bytes followed by further ones give Ok with
\* the same final cursor and the same final budget.
C20_TrailingDataIgnored ==
    /\ (Returned /\ ret = PARSER_OK) => i <= len
    /\ (Returned /\ first.how = "extend" /\ first.ret = PARSER_OK) =>
          /\ ret = PARSER_OK
          /\ i = first.endI
          /\ minimumLen = first.endM

====
